---- MODULE Spec2Model ----
(***************************************************************************)
(* Model of autopush/router/webpush.py: WebPushRouter, the router that     *)
(* checks a notification before routing (preflight_check), sends it to    *)
(* the node holding the client's connection (_send_notification) or       *)
(* stores it in the message table (_save_notification).                   *)
(*                                                                         *)
(* Python strings are TLA+ strings, except the raw push-receipt header,    *)
(* which is a sequence of one-character strings so that strip() is        *)
(* computed character by character.  A dict is a function whose domain is  *)
(* its set of keys.  Every request r has its own locals (pc, notification, *)
(* log, outcome); the receipt codec, the clock and the constructor default *)
(* of RouterException are shared by all requests.                          *)
(***************************************************************************)
EXTENDS Integers, Sequences, FiniteSets, TLC

\* ---------------------------------------------------------------- bounds
NumReqs == 2
MaxTicks == 2
MaxRuns == 2
Epoch == 100

Reqs == 1..NumReqs

\* ---------------------------------------------------------------- inputs
Uaids == {"u1", "u2"}
Channels == {"c1", "c2"}
Versions == {"v1"}
ReceiptIds == {"r1"}
Datas == {"", "xyz"}
Ttls == {0, 60}
Nodes == {"http://n1"}
Whitespace == {" ", "\t", "\n", "\r"}
RawReceipts == {<<>>, <<" ">>, <<"t">>, <<" ", "t", "\t">>}
EncryptionKeys == {"", "dh=k"}
HeaderKeys == {"content-encoding", "encryption", "encryption-key", "push-receipt"}

MkHeaders(D, ek, pr) ==
    [k \in D |-> CASE k = "content-encoding" -> "aesgcm"
                   [] k = "encryption" -> "salt=abc"
                   [] k = "encryption-key" -> ek
                   [] k = "push-receipt" -> pr]

AllHeaders ==
    {MkHeaders(D, ek, pr) : D \in SUBSET HeaderKeys, ek \in EncryptionKeys,
                            pr \in RawReceipts}

\* The Notification tuple of autopush.router.interface, as webpush.py builds it.
Notification(version, data, channel_id, headers, ttl) ==
    [version |-> version, data |-> data, channel_id |-> channel_id,
     headers |-> headers, ttl |-> ttl]

Notifications ==
    {Notification(v, d, c, h, t) :
        v \in Versions, d \in Datas, c \in Channels, h \in AllHeaders, t \in Ttls}

IdleNotification == Notification("v1", "", "c1", MkHeaders({}, "", <<>>), 0)

\* ---------------------------------------------------------------- state
VARIABLES
    pc,               \* where request r is
    uaid,             \* the uaid request r routes to
    rawNotification,  \* the Notification request r was given
    notification,     \* the local `notification` of request r
    log,              \* the calls request r has made, in order
    outcome,          \* the response or error request r ended with
    runs,             \* how many times preflight_check ran for request r
    codec,            \* what parse_push_receipt answers for each token
    now,              \* int(time.time())
    log_default       \* RouterException's default for log_exception

vars == <<pc, uaid, rawNotification, notification, log, outcome, runs, codec,
          now, log_default>>

\* ---------------------------------------------------------------- helpers
\* dict.get(key, default)
Get(h, k, d) == IF k \in DOMAIN h THEN h[k] ELSE d

RECURSIVE lstrip(_)
lstrip(s) == IF s # <<>> /\ Head(s) \in Whitespace THEN lstrip(Tail(s)) ELSE s

RECURSIVE rstrip(_)
rstrip(s) ==
    IF s # <<>> /\ s[Len(s)] \in Whitespace
    THEN rstrip(SubSeq(s, 1, Len(s) - 1))
    ELSE s

\* The header taken as it came.
strip_none(s) == s

\* str.strip()
strip(s) == rstrip(lstrip(s))

\* Python truth of a string
Truthy(s) == s # ""

Tokens == {strip(raw) : raw \in RawReceipts} \ {<<>>}

Unknown == [state |-> "unknown"]
InvalidToken == [state |-> "invalid"]
Decoded(u, c, i) == [state |-> "valid", uaid |-> u, chid |-> c, receipt_id |-> i]
DecodeResults ==
    {InvalidToken} \cup {Decoded(u, c, i) : u \in Uaids, c \in Channels, i \in ReceiptIds}

endpoint_url == "https://push.example"

RouterResponse(status_code, response_body, headers) ==
    [kind |-> "RouterResponse", status_code |-> status_code,
     response_body |-> response_body, headers |-> headers]

RouterException(message, status_code, log_exception) ==
    [kind |-> "RouterException", message |-> message, status_code |-> status_code,
     response_body |-> "", log_exception |-> log_exception]

NoOutcome == [kind |-> "none"]

Call(op, args) == [ev |-> "call", op |-> op, args |-> args]
Return(op, val) == [ev |-> "return", op |-> op, val |-> val]
Enter(op) == [ev |-> "enter", op |-> op]

\* ---------------------------------------------------------------- webpush.py
delivered_response(n) ==
    LET location == endpoint_url \o "/m/" \o n.version
    IN  RouterResponse(201, "", [Location |-> location])

\* Without the alias of line 37 the router answers a stored message with 202.
stored_response_202(n) ==
    RouterResponse(202, "", [Location |-> endpoint_url \o "/m/" \o n.version])

stored_response(n) == delivered_response(n)

\* _crypto_headers raises KeyError unless both keys are there
HasCryptoKeys(h) == {"content-encoding", "encryption"} \subseteq DOMAIN h

crypto_headers(n) ==
    LET headers == n.headers
        data == [encoding |-> headers["content-encoding"],
                 encryption |-> headers["encryption"]]
    IN  IF "encryption-key" \in DOMAIN headers
        THEN [k \in {"encoding", "encryption", "encryption_key"} |->
                 IF k = "encryption_key" THEN headers["encryption-key"] ELSE data[k]]
        ELSE data

invalid_endpoint_response ==
    RouterException("Invalid receipt endpoint", 400, log_default)

\* Only the device of the receipt is compared.
ReceiptMismatch_uaid_only(res, u, n) == res.uaid # u

\* The receipt names another device or another channel (line 69).
ReceiptMismatch(res, u, n) == res.uaid # u \/ res.chid # n.channel_id

\* The two parts of the version the other way round.
AugmentedNotification_swapped(n, receipt_id) ==
    Notification(receipt_id \o ":" \o n.version, n.data, n.channel_id,
                 n.headers, n.ttl)

\* The Notification built once the receipt is valid (lines 77-83).
AugmentedNotification(n, receipt_id) ==
    Notification(n.version \o ":" \o receipt_id, n.data, n.channel_id,
                 n.headers, n.ttl)

\* Only a uaid without any channel is refused.
NoSuchChannel_only_empty(n, result) == result = {}

\* The subscription is not among the channels of the uaid (line 87).
NoSuchChannel(n, result) == n.channel_id \notin result

no_such_subscription == RouterException("No such subscription", 404, log_default)

finished_routing == RouterException("Finished Routing", 201, FALSE)

\* The payload with its headers and data keys whatever the data.
send_payload_always_crypto(n, t) ==
    [channelID |-> n.channel_id, version |-> n.version, ttl |-> n.ttl + t,
     headers |-> IF HasCryptoKeys(n.headers) THEN crypto_headers(n) ELSE [None |-> TRUE],
     data |-> n.data]

\* The body PUT to the node (lines 102-108); t is int(time.time()).
send_payload(n, t) ==
    LET payload == [channelID |-> n.channel_id, version |-> n.version,
                    ttl |-> n.ttl + t]
    IN  IF Truthy(n.data)
        THEN [channelID |-> payload.channelID, version |-> payload.version,
              ttl |-> payload.ttl, headers |-> crypto_headers(n), data |-> n.data]
        ELSE payload

send_url(node_id, u) == node_id \o "/push/" \o u

None == [None |-> TRUE]

\* store_message given an expiry that had the clock added twice.
store_args_converted_twice(u, n, t) ==
    [uaid |-> u, channel_id |-> n.channel_id, data |-> n.data,
     headers |-> IF Truthy(n.data) THEN crypto_headers(n) ELSE None,
     message_id |-> n.version, ttl |-> (n.ttl + t) + t]

\* The keyword arguments of store_message (lines 129-140).
store_args(u, n, t) ==
    [uaid |-> u, channel_id |-> n.channel_id, data |-> n.data,
     headers |-> IF Truthy(n.data) THEN crypto_headers(n) ELSE None,
     message_id |-> n.version, ttl |-> n.ttl + t]

\* ---------------------------------------------------------------- the caller
\* What the caller of the router makes of a KeyError of _crypto_headers and of a
\* failed store_message.
malformed_crypto_headers == RouterException("Malformed crypto headers", 400, TRUE)
storage_failure == RouterException("Error saving to database", 503, TRUE)
registry_failure == [kind |-> "Exception", from |-> "all_channels"]

Terminal == {"Responded", "Error"}

Raised(op) == [ev |-> "raise", op |-> op]

Goto(r, state) == pc' = [pc EXCEPT ![r] = state]
Logged(r, lg) == log' = [log EXCEPT ![r] = lg]
End(r, state, oc) ==
    /\ Goto(r, state)
    /\ outcome' = [outcome EXCEPT ![r] = oc]

\* ---------------------------------------------------------------- steps
\* preflight_check from its call to its first yield.
PreflightEnter(r) ==
    LET receipt == strip(Get(notification[r].headers, "push-receipt", <<>>))
    IN  IF receipt # <<>>
        THEN /\ Goto(r, "parse_push_receipt")
             /\ Logged(r, log[r] \o <<Enter("preflight_check"),
                                      Call("parse_push_receipt", [token |-> receipt])>>)
        ELSE /\ Goto(r, "all_channels")
             /\ Logged(r, log[r] \o <<Enter("preflight_check"),
                                      Call("all_channels", [uaid |-> uaid[r]])>>)

preflight_check(r) ==
    /\ pc[r] = "Start"
    /\ PreflightEnter(r)
    /\ runs' = [runs EXCEPT ![r] = @ + 1]
    /\ UNCHANGED <<uaid, rawNotification, notification, outcome, codec, now,
                   log_default>>

\* The Notification under way kept in one place for all the requests.
ReceiptChecked_shared(r, res) ==
    IF res.state = "invalid"
    THEN /\ Logged(r, Append(log[r], Raised("parse_push_receipt")))
         /\ End(r, "Error", invalid_endpoint_response)
         /\ UNCHANGED notification
    ELSE IF ReceiptMismatch(res, uaid[r], notification[1])
    THEN /\ Logged(r, Append(log[r], Return("parse_push_receipt", res)))
         /\ End(r, "Error", invalid_endpoint_response)
         /\ UNCHANGED notification
    ELSE /\ notification' = [notification EXCEPT ![r] =
                                AugmentedNotification(notification[1], res.receipt_id)]
         /\ Logged(r, log[r] \o <<Return("parse_push_receipt", res),
                                  Call("all_channels", [uaid |-> uaid[r]])>>)
         /\ Goto(r, "all_channels")
         /\ UNCHANGED outcome

\* A receipt of another device or channel answered as an unknown subscription.
ReceiptChecked_reveals(r, res) ==
    IF res.state = "invalid"
    THEN /\ Logged(r, Append(log[r], Raised("parse_push_receipt")))
         /\ End(r, "Error", invalid_endpoint_response)
         /\ UNCHANGED notification
    ELSE IF ReceiptMismatch(res, uaid[r], notification[r])
    THEN /\ Logged(r, Append(log[r], Return("parse_push_receipt", res)))
         /\ End(r, "Error", no_such_subscription)
         /\ UNCHANGED notification
    ELSE /\ notification' = [notification EXCEPT ![r] =
                                AugmentedNotification(@, res.receipt_id)]
         /\ Logged(r, log[r] \o <<Return("parse_push_receipt", res),
                                  Call("all_channels", [uaid |-> uaid[r]])>>)
         /\ Goto(r, "all_channels")
         /\ UNCHANGED outcome

\* preflight_check from the answer of the codec to the next yield or raise.
ReceiptChecked(r, res) ==
    IF res.state = "invalid"
    THEN /\ Logged(r, Append(log[r], Raised("parse_push_receipt")))
         /\ End(r, "Error", invalid_endpoint_response)
         /\ UNCHANGED notification
    ELSE IF ReceiptMismatch(res, uaid[r], notification[r])
    THEN /\ Logged(r, Append(log[r], Return("parse_push_receipt", res)))
         /\ End(r, "Error", invalid_endpoint_response)
         /\ UNCHANGED notification
    ELSE /\ notification' = [notification EXCEPT ![r] =
                                AugmentedNotification(@, res.receipt_id)]
         /\ Logged(r, log[r] \o <<Return("parse_push_receipt", res),
                                  Call("all_channels", [uaid |-> uaid[r]])>>)
         /\ Goto(r, "all_channels")
         /\ UNCHANGED outcome

parse_push_receipt_done(r) ==
    /\ pc[r] = "parse_push_receipt"
    /\ LET token == strip(Get(notification[r].headers, "push-receipt", <<>>))
       IN  \E res \in DecodeResults :
              /\ codec[token] = Unknown \/ codec[token] = res
              /\ codec' = [codec EXCEPT ![token] = res]
              /\ ReceiptChecked(r, res)
    /\ UNCHANGED <<uaid, rawNotification, runs, now, log_default>>

\* preflight_check returning the Notification whatever the registry answered.
ChannelChecked_ignores(r, result) ==
    /\ Logged(r, Append(log[r], Return("all_channels", result)))
    /\ Goto(r, "Preflighted")
    /\ UNCHANGED outcome

\* preflight_check from the answer of the registry to its end.
ChannelChecked(r, result) ==
    /\ Logged(r, Append(log[r], Return("all_channels", result)))
    /\ IF NoSuchChannel(notification[r], result)
       THEN End(r, "Error", no_such_subscription)
       ELSE Goto(r, "Preflighted") /\ UNCHANGED outcome

all_channels_done(r) ==
    /\ pc[r] = "all_channels"
    /\ \E result \in SUBSET Channels : ChannelChecked(r, result)
    /\ UNCHANGED <<uaid, rawNotification, notification, runs, codec, now,
                   log_default>>

all_channels_failed(r) ==
    /\ pc[r] = "all_channels"
    /\ Logged(r, Append(log[r], Raised("all_channels")))
    /\ End(r, "Error", registry_failure)
    /\ UNCHANGED <<uaid, rawNotification, notification, runs, codec, now,
                   log_default>>

\* _send_notification leaving the crypto headers out when they are not all there.
send_notification_no_check(r, node_id, lg) ==
    LET n == notification[r]
        bare == [channelID |-> n.channel_id, version |-> n.version,
                 ttl |-> n.ttl + now]
    IN  /\ Logged(r, lg \o <<Enter("_send_notification"),
                             Call("request",
                                  [method |-> "PUT",
                                   url |-> send_url(node_id, uaid[r]),
                                   payload |-> IF HasCryptoKeys(n.headers)
                                               THEN send_payload(n, now)
                                               ELSE bare])>>)
        /\ Goto(r, "Dispatching")
        /\ UNCHANGED outcome

\* _send_notification: lg is the log of the request so far.
send_notification(r, node_id, lg) ==
    LET n == notification[r]
    IN  IF Truthy(n.data) /\ ~HasCryptoKeys(n.headers)
        THEN /\ Logged(r, Append(lg, Enter("_send_notification")))
             /\ End(r, "Error", malformed_crypto_headers)
        ELSE /\ Logged(r, lg \o <<Enter("_send_notification"),
                                  Call("request", [method |-> "PUT",
                                                   url |-> send_url(node_id, uaid[r]),
                                                   payload |-> send_payload(n, now)])>>)
             /\ Goto(r, "Dispatching")
             /\ UNCHANGED outcome

\* _save_notification without the test of ttl == 0.
save_notification_stores_ttl0(r, lg) ==
    LET n == notification[r]
    IN  IF Truthy(n.data) /\ ~HasCryptoKeys(n.headers)
        THEN /\ Logged(r, Append(lg, Enter("_save_notification")))
             /\ End(r, "Error", malformed_crypto_headers)
        ELSE /\ Logged(r, lg \o <<Enter("_save_notification"),
                                  Call("store_message", store_args(uaid[r], n, now))>>)
             /\ Goto(r, "Storing")
             /\ UNCHANGED outcome

\* _save_notification given the Notification the request came with.
save_notification_original(r, lg) ==
    LET n == rawNotification[r]
    IN  IF n.ttl = 0
        THEN /\ Logged(r, Append(lg, Enter("_save_notification")))
             /\ End(r, "Error", finished_routing)
        ELSE IF Truthy(n.data) /\ ~HasCryptoKeys(n.headers)
        THEN /\ Logged(r, Append(lg, Enter("_save_notification")))
             /\ End(r, "Error", malformed_crypto_headers)
        ELSE /\ Logged(r, lg \o <<Enter("_save_notification"),
                                  Call("store_message", store_args(uaid[r], n, now))>>)
             /\ Goto(r, "Storing")
             /\ UNCHANGED outcome

\* _save_notification: lg is the log of the request so far.
save_notification(r, lg) ==
    LET n == notification[r]
    IN  IF n.ttl = 0
        THEN /\ Logged(r, Append(lg, Enter("_save_notification")))
             /\ End(r, "Error", finished_routing)
        ELSE IF Truthy(n.data) /\ ~HasCryptoKeys(n.headers)
        THEN /\ Logged(r, Append(lg, Enter("_save_notification")))
             /\ End(r, "Error", malformed_crypto_headers)
        ELSE /\ Logged(r, lg \o <<Enter("_save_notification"),
                                  Call("store_message", store_args(uaid[r], n, now))>>)
             /\ Goto(r, "Storing")
             /\ UNCHANGED outcome

\* The caller after preflight_check returned: to the node of the uaid when one is
\* known, to the message table otherwise.
route_to_node(r) ==
    /\ pc[r] = "Preflighted"
    /\ \E node_id \in Nodes : send_notification(r, node_id, log[r])
    /\ UNCHANGED <<uaid, rawNotification, notification, runs, codec, now,
                   log_default>>

route_to_storage(r) ==
    /\ pc[r] = "Preflighted"
    /\ save_notification(r, log[r])
    /\ UNCHANGED <<uaid, rawNotification, notification, runs, codec, now,
                   log_default>>

\* The notification stored as well after the node accepted it.
request_done_also_stores(r) ==
    /\ pc[r] = "Dispatching"
    /\ save_notification(r, Append(log[r], Return("request", 200)))
    /\ UNCHANGED <<uaid, rawNotification, notification, runs, codec, now,
                   log_default>>

\* The node accepted the PUT.
request_done(r) ==
    /\ pc[r] = "Dispatching"
    /\ Logged(r, Append(log[r], Return("request", 200)))
    /\ End(r, "Responded", delivered_response(notification[r]))
    /\ UNCHANGED <<uaid, rawNotification, notification, runs, codec, now,
                   log_default>>

\* The refusal handed to the caller instead of trying storage.
request_refused_surfaces(r) ==
    /\ pc[r] = "Dispatching"
    /\ Logged(r, Append(log[r], Raised("request")))
    /\ End(r, "Error", RouterException("Connection refused", 503, TRUE))
    /\ UNCHANGED <<uaid, rawNotification, notification, runs, codec, now,
                   log_default>>

\* The PUT tried again after a refusal.
request_refused_retries(r) ==
    /\ pc[r] = "Dispatching"
    /\ Logged(r, log[r] \o <<Raised("request"),
                             Call("request", log[r][Len(log[r])].args)>>)
    /\ UNCHANGED <<pc, outcome, uaid, rawNotification, notification, runs, codec,
                   now, log_default>>

\* The connection was refused.
request_refused(r) ==
    /\ pc[r] = "Dispatching"
    /\ save_notification(r, Append(log[r], Raised("request")))
    /\ UNCHANGED <<uaid, rawNotification, notification, runs, codec, now,
                   log_default>>

\* The node answered with another status than 200.
request_rejected(r) ==
    /\ pc[r] = "Dispatching"
    /\ save_notification(r, Append(log[r], Return("request", 503)))
    /\ UNCHANGED <<uaid, rawNotification, notification, runs, codec, now,
                   log_default>>

store_message_done(r) ==
    /\ pc[r] = "Storing"
    /\ Logged(r, Append(log[r], Return("store_message", TRUE)))
    /\ End(r, "Responded", stored_response(notification[r]))
    /\ UNCHANGED <<uaid, rawNotification, notification, runs, codec, now,
                   log_default>>

store_message_failed(r) ==
    /\ pc[r] = "Storing"
    /\ Logged(r, Append(log[r], Raised("store_message")))
    /\ End(r, "Error", storage_failure)
    /\ UNCHANGED <<uaid, rawNotification, notification, runs, codec, now,
                   log_default>>

\* time.time() advances while a request is under way.
Tick ==
    /\ now < Epoch + MaxTicks
    /\ \E r \in Reqs : pc[r] \notin Terminal \cup {"Idle"}
    /\ now' = now + 1
    /\ UNCHANGED <<pc, uaid, rawNotification, notification, log, outcome, runs,
                   codec, log_default>>

\* preflight_check called again on the Notification it returned.
preflight_check_again(r) ==
    /\ pc[r] = "Preflighted"
    /\ runs[r] < MaxRuns
    /\ PreflightEnter(r)
    /\ runs' = [runs EXCEPT ![r] = @ + 1]
    /\ UNCHANGED <<uaid, rawNotification, notification, outcome, codec, now,
                   log_default>>

\* The outer request is cancelled while request r waits for an external call:
\* the wait ends with CancelledError, the call itself goes on.
Awaiting == {"parse_push_receipt", "all_channels", "Dispatching", "Storing"}
AwaitedOp(state) == IF state = "Dispatching" THEN "request"
                    ELSE IF state = "Storing" THEN "store_message"
                    ELSE state
cancelled == [kind |-> "Exception", from |-> "CancelledError"]
Cancelled(op) == [ev |-> "cancel", op |-> op]
Late(op) == [ev |-> "late", op |-> op]

cancel(r) ==
    /\ pc[r] \in Awaiting
    /\ Logged(r, Append(log[r], Cancelled(AwaitedOp(pc[r]))))
    /\ End(r, "Error", cancelled)
    /\ UNCHANGED <<uaid, rawNotification, notification, runs, codec, now,
                   log_default>>

\* The late answer starts the request again: a stored notification is answered.
late_completion_resumes(r) ==
    /\ pc[r] = "Error"
    /\ log[r] # <<>>
    /\ log[r][Len(log[r])].ev = "cancel"
    /\ Logged(r, Append(log[r], Late(log[r][Len(log[r])].op)))
    /\ End(r, "Responded", stored_response(notification[r]))
    /\ UNCHANGED <<uaid, rawNotification, notification, runs, codec, now,
                   log_default>>

\* The call that was under way when the request was cancelled completes: its
\* answer is dropped.
late_completion(r) ==
    /\ pc[r] = "Error"
    /\ log[r] # <<>>
    /\ log[r][Len(log[r])].ev = "cancel"
    /\ Logged(r, Append(log[r], Late(log[r][Len(log[r])].op)))
    /\ UNCHANGED <<pc, outcome, uaid, rawNotification, notification, runs, codec,
                   now, log_default>>

\* ---------------------------------------------------------------- specification
InitOf(active) ==
    /\ log_default \in BOOLEAN
    /\ now = Epoch
    /\ codec = [t \in Tokens |-> Unknown]
    /\ uaid \in [Reqs -> Uaids]
    /\ rawNotification \in [Reqs -> Notifications]
    /\ \A r \in Reqs \ active :
          uaid[r] = "u1" /\ rawNotification[r] = IdleNotification
    /\ notification = rawNotification
    /\ pc = [r \in Reqs |-> IF r \in active THEN "Start" ELSE "Idle"]
    /\ log = [r \in Reqs |-> <<>>]
    /\ outcome = [r \in Reqs |-> NoOutcome]
    /\ runs = [r \in Reqs |-> 0]

Init == InitOf({1})

Step(r) ==
    \/ preflight_check(r)
    \/ parse_push_receipt_done(r)
    \/ all_channels_done(r)
    \/ all_channels_failed(r)
    \/ route_to_node(r)
    \/ route_to_storage(r)
    \/ request_done(r)
    \/ request_refused(r)
    \/ request_rejected(r)
    \/ store_message_done(r)
    \/ store_message_failed(r)

Next == (\E r \in Reqs : Step(r)) \/ Tick

Spec == Init /\ [][Next]_vars

NextAgain == Next \/ (\E r \in Reqs : preflight_check_again(r))

SpecAgain == Init /\ [][NextAgain]_vars

NextCancel ==
    \/ Next
    \/ \E r \in Reqs : cancel(r)
    \/ \E r \in Reqs : late_completion(r)

SpecCancel == Init /\ [][NextCancel]_vars

\* Two requests under way on one router at the same time, each with a version
\* of its own.
Concurrent == {1, 2}
ConcHeaders ==
    {MkHeaders({}, "", <<>>),
     MkHeaders({"content-encoding", "encryption", "push-receipt"}, "", <<"t">>)}
ConcNotifications(r) ==
    {Notification(IF r = 1 THEN "v1" ELSE "v2", d, c, h, 60) :
        d \in Datas, c \in Channels, h \in ConcHeaders}

InitConc ==
    /\ log_default \in BOOLEAN
    /\ now = Epoch
    /\ codec = [t \in Tokens |-> Unknown]
    /\ uaid \in [Reqs -> Uaids]
    /\ rawNotification \in [Reqs -> UNION {ConcNotifications(r) : r \in Concurrent}
                                      \cup {IdleNotification}]
    /\ \A r \in Concurrent : rawNotification[r] \in ConcNotifications(r)
    /\ uaid[1] = "u1"
    /\ \A r \in Reqs \ Concurrent :
          uaid[r] = "u1" /\ rawNotification[r] = IdleNotification
    /\ notification = rawNotification
    /\ pc = [r \in Reqs |-> IF r \in Concurrent THEN "Start" ELSE "Idle"]
    /\ log = [r \in Reqs |-> <<>>]
    /\ outcome = [r \in Reqs |-> NoOutcome]
    /\ runs = [r \in Reqs |-> 0]

SpecConc == InitConc /\ [][Next]_vars

\* Every external call of a request that has started completes or fails.
SpecLive == Init /\ [][Next]_vars /\ \A r \in Reqs : WF_vars(Step(r))

\* ---------------------------------------------------------------- reading a run
Events(r, ev, op) ==
    {i \in DOMAIN log[r] : log[r][i].ev = ev /\ log[r][i].op = op}
Called(r, op) == Events(r, "call", op) # {}
Entered(r, op) == Events(r, "enter", op) # {}
CalledOps(r) == {log[r][i].op : i \in {j \in DOMAIN log[r] : log[r][j].ev = "call"}}

\* The token request r was given, and what the codec makes of it.
TokenOf(r) == strip(Get(rawNotification[r].headers, "push-receipt", <<>>))
HasReceipt(r) == TokenOf(r) # <<>>
AnswerOf(r) == codec[TokenOf(r)]
ReceiptUndecodable(r) == HasReceipt(r) /\ AnswerOf(r).state = "invalid"
ReceiptOfAnother(r) ==
    /\ HasReceipt(r)
    /\ AnswerOf(r).state = "valid"
    /\ \/ AnswerOf(r).uaid # uaid[r]
       \/ AnswerOf(r).chid # rawNotification[r].channel_id
ReceiptRejected(r) == ReceiptUndecodable(r) \/ ReceiptOfAnother(r)
ReceiptValid(r) ==
    /\ HasReceipt(r)
    /\ AnswerOf(r).state = "valid"
    /\ AnswerOf(r).uaid = uaid[r]
    /\ AnswerOf(r).chid = rawNotification[r].channel_id

InPreflight(r) == pc[r] \in {"Idle", "Start", "parse_push_receipt", "all_channels"}
IsError(oc, status, message) ==
    /\ oc.kind = "RouterException"
    /\ oc.status_code = status
    /\ oc.message = message

\* The sets the registry answered request r with.
RegistryAnswers(r) == {log[r][i].val : i \in Events(r, "return", "all_channels")}

\* ---------------------------------------------------------------- claims

\* C1: a request whose receipt token does not decode, or decodes to another
\* owner or channel, ends with the 400 "Invalid receipt endpoint" error and never
\* calls all_channels; and whenever a request calls both the codec and the
\* registry, the codec has answered before the registry is called.
C1_ReceiptShortCircuits ==
    \A r \in Reqs :
        /\ (ReceiptRejected(r) /\ ~InPreflight(r)) =>
              /\ pc[r] = "Error"
              /\ IsError(outcome[r], 400, "Invalid receipt endpoint")
              /\ ~Called(r, "all_channels")
        /\ \A i \in Events(r, "call", "all_channels") :
           \A j \in Events(r, "call", "parse_push_receipt") :
              j < i => \E k \in Events(r, "return", "parse_push_receipt") :
                          j < k /\ k < i

C1_Witness ==
    \E r \in Reqs :
        /\ ReceiptOfAnother(r)
        /\ AnswerOf(r).uaid = uaid[r]
        /\ pc[r] = "Error"
        /\ Called(r, "parse_push_receipt")

\* C2: whether the token fails to decode or names another owner or channel,
\* the request ends with one and the same error (RouterException, 400,
\* "Invalid receipt endpoint", empty body, the constructor's logging flag) and
\* has called the codec and nothing else.
C2_RejectionsIndistinguishable ==
    \A r \in Reqs :
        (ReceiptRejected(r) /\ ~InPreflight(r)) =>
            /\ outcome[r] = [kind |-> "RouterException",
                             message |-> "Invalid receipt endpoint",
                             status_code |-> 400, response_body |-> "",
                             log_exception |-> log_default]
            /\ CalledOps(r) = {"parse_push_receipt"}

C2_Witness ==
    \E r \in Reqs :
        /\ ReceiptUndecodable(r)
        /\ pc[r] = "Error"
        /\ Called(r, "parse_push_receipt")

\* C3: a notification with ttl 0 that reaches _save_notification ends with
\* "Finished Routing" (201, empty body) and store_message is never called,
\* with or without data.
C3_TtlZeroNeverStored ==
    \A r \in Reqs :
        (Entered(r, "_save_notification") /\ notification[r].ttl = 0) =>
            /\ pc[r] = "Error"
            /\ IsError(outcome[r], 201, "Finished Routing")
            /\ outcome[r].response_body = ""
            /\ ~Called(r, "store_message")

C3_Witness ==
    \E r \in Reqs :
        /\ Entered(r, "_save_notification")
        /\ notification[r].ttl = 0
        /\ notification[r].data # ""
        /\ pc[r] = "Error"

PassedPreflight(r) ==
    \E s \in RegistryAnswers(r) : rawNotification[r].channel_id \in s
DispatchFailed(r) ==
    \/ Events(r, "raise", "request") # {}
    \/ \E i \in Events(r, "return", "request") : log[r][i].val # 200
NoNodeKnown(r) ==
    /\ PassedPreflight(r)
    /\ pc[r] \notin {"Preflighted", "all_channels"}
    /\ ~Entered(r, "_send_notification")

\* C4: once preflight has passed, a request with no known node, and a request
\* whose PUT to the node was refused or answered with another status than 200,
\* goes on to _save_notification right after; what the request ends with is what
\* storage gives, never the failure of the transport.
C4_DispatchFailureFallsToStorage ==
    \A r \in Reqs :
        /\ NoNodeKnown(r) => Entered(r, "_save_notification")
        /\ \A i \in DOMAIN log[r] :
              (/\ log[r][i].op = "request"
               /\ \/ log[r][i].ev = "raise"
                  \/ log[r][i].ev = "return" /\ log[r][i].val # 200)
              => /\ i < Len(log[r])
                 /\ log[r][i + 1] = Enter("_save_notification")
        /\ (PassedPreflight(r) /\ (DispatchFailed(r) \/ NoNodeKnown(r))) =>
              \/ pc[r] = "Storing" /\ outcome[r] = NoOutcome
              \/ pc[r] = "Responded" /\ outcome[r].kind = "RouterResponse"
              \/ /\ pc[r] = "Error"
                 /\ \/ IsError(outcome[r], 201, "Finished Routing")
                    \/ IsError(outcome[r], 400, "Malformed crypto headers")
                    \/ IsError(outcome[r], 503, "Error saving to database")

C4_Witness ==
    \E r \in Reqs :
        /\ Events(r, "raise", "request") # {}
        /\ Called(r, "store_message")
        /\ pc[r] = "Responded"

\* C5: a request answered after the node took the PUT and a request answered
\* after store_message get the same response for the same version: status 201,
\* empty body and the one header Location "<endpoint_url>/m/<version>".
C5_DeliveredAndStoredAlike ==
    \A r \in Reqs :
        pc[r] = "Responded" =>
            /\ Called(r, "request") \/ Called(r, "store_message")
            /\ outcome[r] =
                  [kind |-> "RouterResponse", status_code |-> 201,
                   response_body |-> "",
                   headers |-> [Location |-> "https://push.example/m/"
                                             \o notification[r].version]]

C5_Witness ==
    \E r \in Reqs :
        /\ pc[r] = "Responded"
        /\ Called(r, "store_message")
        /\ ~Called(r, "request")
        /\ outcome[r].headers.Location = "https://push.example/m/v1:r1"

\* C6: when the token decodes to the uaid and the channel of the request,
\* preflight_check goes on with a Notification whose version is
\* "<version>:<receipt_id>" and whose channel_id, data, headers and ttl are those
\* it was given; the Notification it was given is never changed.
C6_Augmented ==
    \A r \in Reqs :
        (ReceiptValid(r) /\ Events(r, "return", "parse_push_receipt") # {}) =>
            notification[r] =
                [version |-> rawNotification[r].version \o ":"
                             \o AnswerOf(r).receipt_id,
                 data |-> rawNotification[r].data,
                 channel_id |-> rawNotification[r].channel_id,
                 headers |-> rawNotification[r].headers,
                 ttl |-> rawNotification[r].ttl]

C6_ReceiptAugmentsVersion ==
    /\ []C6_Augmented
    /\ [][rawNotification' = rawNotification]_vars

C6_Witness ==
    \E r \in Reqs :
        /\ ReceiptValid(r)
        /\ pc[r] = "Preflighted"
        /\ notification[r].version = "v1:r1"
        /\ rawNotification[r].version = "v1"
        /\ notification[r].data = "xyz"

\* C7: preflight_check run again on the Notification it returned, with the same
\* uaid and the same valid token, returns the version "<version>:<receipt_id>"
\* and not "<version>:<receipt_id>:<receipt_id>".
C7_AugmentedOnce ==
    \A r \in Reqs :
        (ReceiptValid(r) /\ runs[r] >= 2 /\ pc[r] = "Preflighted") =>
            notification[r].version =
                rawNotification[r].version \o ":" \o AnswerOf(r).receipt_id

\* C8: with no receipt or a valid one, all_channels is called exactly once for
\* the uaid; the request fails with 404 "No such subscription" exactly when the
\* channel is not in the set returned, and when it is, the Notification is the
\* one receipt verification left.
C8_ChannelValidated ==
    \A r \in Reqs :
        ((~HasReceipt(r) \/ ReceiptValid(r)) /\ ~InPreflight(r)) =>
            /\ Cardinality(Events(r, "call", "all_channels")) = 1
            /\ \A i \in Events(r, "call", "all_channels") :
                  log[r][i].args = [uaid |-> uaid[r]]
            /\ \A s \in RegistryAnswers(r) :
                  /\ IsError(outcome[r], 404, "No such subscription")
                        <=> rawNotification[r].channel_id \notin s
                  /\ rawNotification[r].channel_id \in s =>
                        notification[r] =
                            IF HasReceipt(r)
                            THEN [rawNotification[r] EXCEPT !.version =
                                     @ \o ":" \o AnswerOf(r).receipt_id]
                            ELSE rawNotification[r]

C8_Witness ==
    \E r \in Reqs :
        /\ ReceiptValid(r)
        /\ pc[r] = "Error"
        /\ IsError(outcome[r], 404, "No such subscription")
        /\ RegistryAnswers(r) = {{"c2"}}
        /\ rawNotification[r].channel_id = "c1"

\* The crypto mappings request r has sent to a node or to the message table.
CryptoSent(r) ==
    {log[r][i].args.payload.headers :
        i \in {j \in Events(r, "call", "request") :
                  "headers" \in DOMAIN log[r][j].args.payload}}
    \cup {log[r][i].args.headers :
             i \in {j \in Events(r, "call", "store_message") :
                       log[r][j].args.data # ""}}

\* C9: for a notification with data, the mapping of _crypto_headers has the key
\* encryption_key exactly when the headers have encryption-key, and its value is
\* never the empty string.
C9_NoEmptyEncryptionKey ==
    \A r \in Reqs :
        \A m \in CryptoSent(r) :
            /\ "encryption_key" \in DOMAIN m
                  <=> "encryption-key" \in DOMAIN notification[r].headers
            /\ "encryption_key" \in DOMAIN m => m["encryption_key"] # ""

\* C10: "Invalid receipt endpoint" (400) is marked not to be logged, "No such
\* subscription" (404) is marked to be logged, and "Finished Routing" (201) is
\* marked not to be logged.
C10_LoggingFlags ==
    \A r \in Reqs :
        /\ IsError(outcome[r], 400, "Invalid receipt endpoint") =>
              outcome[r].log_exception = FALSE
        /\ IsError(outcome[r], 404, "No such subscription") =>
              outcome[r].log_exception = TRUE
        /\ IsError(outcome[r], 201, "Finished Routing") =>
              outcome[r].log_exception = FALSE

\* Data with content-encoding or encryption missing from the headers.
CryptoHeadersMissing(r) ==
    /\ rawNotification[r].data # ""
    /\ ~({"content-encoding", "encryption"} \subseteq DOMAIN rawNotification[r].headers)
Routed(r) == Entered(r, "_send_notification") \/ Entered(r, "_save_notification")

\* C11 as claimed: a notification with data and without content-encoding or
\* encryption ends with "Malformed crypto headers" (400) on the way to the node
\* and on the way to storage, with neither a PUT nor a store_message.
C11_MalformedOnBothPaths ==
    \A r \in Reqs :
        (CryptoHeadersMissing(r) /\ Routed(r)) =>
            /\ pc[r] = "Error"
            /\ IsError(outcome[r], 400, "Malformed crypto headers")
            /\ ~Called(r, "request")
            /\ ~Called(r, "store_message")

\* C11 amended: the same, except that on the way to storage a ttl of 0 is
\* tested before the headers are read, and the request then ends with
\* "Finished Routing" (201); still neither a PUT nor a store_message.
C11_MalformedUnlessTtlZeroStored ==
    \A r \in Reqs :
        (CryptoHeadersMissing(r) /\ Routed(r)) =>
            /\ pc[r] = "Error"
            /\ ~Called(r, "request")
            /\ ~Called(r, "store_message")
            /\ ~(Entered(r, "_send_notification") /\ Entered(r, "_save_notification"))
            /\ IF Entered(r, "_save_notification") /\ rawNotification[r].ttl = 0
               THEN IsError(outcome[r], 201, "Finished Routing")
               ELSE IsError(outcome[r], 400, "Malformed crypto headers")

C11_Witness ==
    \E r \in Reqs :
        /\ CryptoHeadersMissing(r)
        /\ Entered(r, "_send_notification")
        /\ rawNotification[r].ttl = 0
        /\ IsError(outcome[r], 400, "Malformed crypto headers")

OutcomeKept ==
    \A r \in Reqs :
        outcome[r] # NoOutcome => outcome'[r] = outcome[r] /\ pc'[r] = pc[r]

\* C12: a request has an outcome exactly when it has ended, and once it has one
\* no later step (the answer of a call that was under way when the request was
\* cancelled included) gives it another or starts it again.
C12_OneOutcome ==
    /\ [](\A r \in Reqs : (outcome[r] # NoOutcome) <=> (pc[r] \in Terminal))
    /\ [][OutcomeKept]_vars

C12_Witness ==
    \E r \in Reqs :
        /\ outcome[r] = [kind |-> "Exception", from |-> "CancelledError"]
        /\ Events(r, "call", "store_message") # {}
        /\ Events(r, "cancel", "store_message") # {}
        /\ Events(r, "late", "store_message") # {}

\* The steps of the orchestrator: Start, Preflighting (the two waits of
\* preflight_check and its return), Dispatching, Storing, Responded, Error.
RouteEdges ==
    {<<"Start", "parse_push_receipt">>, <<"Start", "all_channels">>,
     <<"parse_push_receipt", "all_channels">>, <<"parse_push_receipt", "Error">>,
     <<"all_channels", "Preflighted">>, <<"all_channels", "Error">>,
     <<"Preflighted", "Dispatching">>, <<"Preflighted", "Storing">>,
     <<"Preflighted", "Error">>,
     <<"Dispatching", "Responded">>, <<"Dispatching", "Storing">>,
     <<"Dispatching", "Error">>,
     <<"Storing", "Responded">>, <<"Storing", "Error">>}

RouteStep ==
    \A r \in Reqs :
        (pc'[r] # pc[r] \/ log'[r] # log[r]) => <<pc[r], pc'[r]>> \in RouteEdges

\* C13: every step of a request goes forward along Start -> Preflighting ->
\* {Dispatching | Storing} -> Responded, or to Error, never back and never twice
\* through one state; and when every external call completes or fails, a request
\* that has started reaches Responded or Error.
C13_RoutesAndEnds ==
    /\ [][RouteStep]_vars
    /\ \A r \in Reqs : (pc[r] = "Start") ~> (pc[r] \in {"Responded", "Error"})

C13_Witness ==
    \E r \in Reqs :
        /\ pc[r] = "Responded"
        /\ Events(r, "return", "parse_push_receipt") # {}
        /\ Events(r, "raise", "request") # {}
        /\ Events(r, "return", "store_message") # {}

\* The entries a step adds to the log of request r.
NewEntries(r) == {i \in DOMAIN log'[r] : i > Len(log[r])}

ExpiryFromOriginalTtl ==
    \A r \in Reqs : \A i \in NewEntries(r) :
        LET e == log'[r][i]
        IN  /\ (e.ev = "call" /\ e.op = "request") =>
                 e.args.payload.ttl = rawNotification[r].ttl + now
            /\ (e.ev = "call" /\ e.op = "store_message") =>
                 /\ e.args.ttl = rawNotification[r].ttl + now
                 /\ \A j \in Events(r, "call", "request") :
                       e.args.ttl # log[r][j].args.payload.ttl + now

\* C14: the ttl in the payload PUT to the node and the ttl given to
\* store_message are both the ttl the request came with plus the clock at the
\* moment of that call; after a failed dispatch the stored ttl is the original
\* ttl plus the clock at storage, never the payload's ttl plus the clock.
C14_ExpiryConvertedOnce == [][ExpiryFromOriginalTtl]_vars

C14_Witness ==
    \E r \in Reqs :
        /\ \E j \in Events(r, "call", "request") :
              log[r][j].args.payload.ttl = 60 + Epoch
        /\ \E i \in Events(r, "call", "store_message") :
              log[r][i].args.ttl = 60 + Epoch + 1
        /\ pc[r] = "Responded"

\* The crypto headers request r came with, assembled as _crypto_headers does.
CryptoOf(r) ==
    LET h == rawNotification[r].headers
    IN  IF "encryption-key" \in DOMAIN h
        THEN [encoding |-> h["content-encoding"], encryption |-> h["encryption"],
              encryption_key |-> h["encryption-key"]]
        ELSE [encoding |-> h["content-encoding"], encryption |-> h["encryption"]]

\* C15: the payload PUT to the node has the keys headers and data exactly when
\* the data is not empty, and then they are the assembled crypto headers and the
\* data; store_message gets the assembled crypto headers when the data is not
\* empty and None otherwise; a request without data never ends with the error of
\* _crypto_headers, its headers are not read.
C15_CryptoIffData ==
    \A r \in Reqs :
        LET withData == rawNotification[r].data # ""
        IN  /\ \A i \in Events(r, "call", "request") :
                  LET p == log[r][i].args.payload
                  IN  /\ ("headers" \in DOMAIN p) <=> withData
                      /\ ("data" \in DOMAIN p) <=> withData
                      /\ withData => /\ p.headers = CryptoOf(r)
                                     /\ p.data = rawNotification[r].data
            /\ \A i \in Events(r, "call", "store_message") :
                  LET a == log[r][i].args
                  IN  IF withData THEN a.headers = CryptoOf(r)
                                  ELSE a.headers = [None |-> TRUE]
            /\ ~withData => ~IsError(outcome[r], 400, "Malformed crypto headers")

C15_Witness ==
    /\ \E r \in Reqs :
          /\ rawNotification[r].data = ""
          /\ "content-encoding" \notin DOMAIN rawNotification[r].headers
          /\ Events(r, "call", "request") # {}
          /\ Events(r, "call", "store_message") # {}
          /\ pc[r] = "Responded"

\* The registry answered request r without its channel, or failed.
ChannelUnknown(r) ==
    \E s \in RegistryAnswers(r) : rawNotification[r].channel_id \notin s
RegistryFailed(r) == Events(r, "raise", "all_channels") # {}

\* C16: a request whose receipt was rejected, whose channel the registry does
\* not know, or whose registry lookup failed, has ended with that error (400
\* "Invalid receipt endpoint", 404 "No such subscription", the exception of the
\* registry) and has neither entered _send_notification or _save_notification
\* nor called request or store_message.
C16_FailedPreflightTouchesNothing ==
    \A r \in Reqs :
        LET rejected == ReceiptRejected(r) /\ ~InPreflight(r)
        IN  (rejected \/ ChannelUnknown(r) \/ RegistryFailed(r)) =>
              /\ pc[r] = "Error"
              /\ rejected => IsError(outcome[r], 400, "Invalid receipt endpoint")
              /\ ChannelUnknown(r) => IsError(outcome[r], 404, "No such subscription")
              /\ RegistryFailed(r) =>
                    outcome[r] = [kind |-> "Exception", from |-> "all_channels"]
              /\ CalledOps(r) \subseteq {"parse_push_receipt", "all_channels"}
              /\ ~Entered(r, "_send_notification")
              /\ ~Entered(r, "_save_notification")

C16_Witness ==
    \E r \in Reqs :
        /\ ReceiptValid(r)
        /\ ChannelUnknown(r)
        /\ RegistryAnswers(r) # {{}}
        /\ pc[r] = "Error"

Delivered(r) == \E i \in Events(r, "return", "request") : log[r][i].val = 200
Stored(r) == Events(r, "return", "store_message") # {}

\* C17: a request whose PUT the node answered with 200 never calls
\* store_message; store_message is called at most once, after the registry
\* answered with the channel of the request, and either _send_notification was
\* never entered or the PUT before it was refused or answered with another
\* status; a request that ended with a response was delivered or stored, not both.
C17_OneSink ==
    \A r \in Reqs :
        /\ Delivered(r) => ~Called(r, "store_message")
        /\ Cardinality(Events(r, "call", "store_message")) <= 1
        /\ \A i \in Events(r, "call", "store_message") :
              /\ \E k \in Events(r, "return", "all_channels") :
                    k < i /\ rawNotification[r].channel_id \in log[r][k].val
              /\ \/ ~Entered(r, "_send_notification")
                 \/ \E k \in DOMAIN log[r] :
                       /\ k < i
                       /\ log[r][k].op = "request"
                       /\ \/ log[r][k].ev = "raise"
                          \/ log[r][k].ev = "return" /\ log[r][k].val # 200
        /\ pc[r] = "Responded" => (Delivered(r) /\ ~Stored(r)) \/ (Stored(r) /\ ~Delivered(r))

C17_Witness ==
    \E r \in Reqs :
        /\ pc[r] = "Responded"
        /\ \E i \in Events(r, "return", "request") : log[r][i].val = 503
        /\ Cardinality(Events(r, "call", "store_message")) = 1
        /\ Stored(r)

\* What belongs to request r alone.
Own(r) ==
    <<pc[r], uaid[r], rawNotification[r], notification[r], log[r], outcome[r],
      runs[r]>>

\* The receipt ids the codec answered request r with, for its own device and
\* channel.
OwnReceiptIds(r) ==
    {log[r][i].val.receipt_id :
        i \in {j \in Events(r, "return", "parse_push_receipt") :
                  /\ log[r][j].val.state = "valid"
                  /\ log[r][j].val.uaid = uaid[r]
                  /\ log[r][j].val.chid = rawNotification[r].channel_id}}

\* The Notification of request r as its own input and its own answer of the
\* codec give it.
OwnNotification(r) ==
    IF OwnReceiptIds(r) = {}
    THEN rawNotification[r]
    ELSE [rawNotification[r] EXCEPT
             !.version = @ \o ":" \o (CHOOSE i \in OwnReceiptIds(r) : TRUE)]

\* What request r ends with, from its own input and the last thing that
\* happened to it.
OwnOutcome(r) ==
    LET e == log[r][Len(log[r])]
        n == OwnNotification(r)
    IN  CASE e.op = "parse_push_receipt" -> invalid_endpoint_response
          [] e.op = "all_channels" /\ e.ev = "return" -> no_such_subscription
          [] e.op = "all_channels" /\ e.ev = "raise" -> registry_failure
          [] e.op = "_send_notification" -> malformed_crypto_headers
          [] e.op = "_save_notification" ->
                IF n.ttl = 0 THEN finished_routing ELSE malformed_crypto_headers
          [] e.op = "request" -> delivered_response(n)
          [] e.op = "store_message" /\ e.ev = "return" -> stored_response(n)
          [] e.op = "store_message" /\ e.ev = "raise" -> storage_failure

OwnState ==
    \A r \in Reqs :
        /\ notification[r] = OwnNotification(r)
        /\ pc[r] \in {"Responded", "Error"} => outcome[r] = OwnOutcome(r)

OwnStep ==
    /\ \A r \in Reqs : \A q \in Reqs \ {r} :
          Own(r)' # Own(r) => Own(q)' = Own(q)
    /\ \A r \in Reqs :
          /\ uaid'[r] = uaid[r]
          /\ rawNotification'[r] = rawNotification[r]
          /\ \A i \in NewEntries(r) :
                LET e == log'[r][i]
                IN  e.ev = "call" =>
                      CASE e.op = "parse_push_receipt" ->
                              e.args = [token |-> TokenOf(r)]
                        [] e.op = "all_channels" -> e.args = [uaid |-> uaid[r]]
                        [] e.op = "request" ->
                              \E node_id \in Nodes :
                                 e.args = [method |-> "PUT",
                                           url |-> node_id \o "/push/" \o uaid[r],
                                           payload |-> send_payload(OwnNotification(r), now)]
                        [] e.op = "store_message" ->
                              e.args = store_args(uaid[r], OwnNotification(r), now)

\* C18: with two requests under way at once and their steps interleaved in any
\* order, a step changes what belongs to one request only; the Notification a
\* request carries, the arguments of each of its external calls and what it ends
\* with are given by its own uaid, its own Notification, the clock and the
\* answers its own calls got, as for a request that runs alone.
C18_RequestsDoNotInterfere == []OwnState /\ [][OwnStep]_vars

C18_Witness ==
    /\ pc[1] = "Storing"
    /\ Events(1, "raise", "request") # {}
    /\ notification[1].version = "v1"
    /\ pc[2] = "Dispatching"
    /\ notification[2].version = "v2:r1"
    /\ uaid[2] # uaid[1]

\* The version preflight_check hands back for request r: the one it came with,
\* followed by ":" and the receipt id when it came with a receipt.
PreflightVersion(r) ==
    IF HasReceipt(r)
    THEN rawNotification[r].version \o ":" \o AnswerOf(r).receipt_id
    ELSE rawNotification[r].version

\* C19: the version in the payload PUT to the node, the message_id given to
\* store_message and the version at the end of the Location of the response are
\* all the version of the Notification preflight_check returned; with a receipt
\* none of them is the version the request came with.
C19_OneVersionAfterPreflight ==
    \A r \in Reqs :
        /\ \A i \in Events(r, "call", "request") :
              /\ log[r][i].args.payload.version = PreflightVersion(r)
              /\ HasReceipt(r) =>
                    log[r][i].args.payload.version # rawNotification[r].version
        /\ \A i \in Events(r, "call", "store_message") :
              /\ log[r][i].args.message_id = PreflightVersion(r)
              /\ HasReceipt(r) =>
                    log[r][i].args.message_id # rawNotification[r].version
        /\ pc[r] = "Responded" =>
              /\ outcome[r].headers.Location =
                    "https://push.example" \o "/m/" \o PreflightVersion(r)
              /\ HasReceipt(r) =>
                    outcome[r].headers.Location #
                       "https://push.example" \o "/m/" \o rawNotification[r].version

C19_Witness ==
    \E r \in Reqs :
        /\ ReceiptValid(r)
        /\ \E i \in Events(r, "call", "request") :
              log[r][i].args.payload.version = "v1:r1"
        /\ \E i \in Events(r, "call", "store_message") :
              log[r][i].args.message_id = "v1:r1"
        /\ pc[r] = "Responded"
        /\ outcome[r].headers.Location = "https://push.example/m/v1:r1"

\* Request r came without a push-receipt header, or with one that is empty or
\* made of blanks, tabs and line ends only.
NoReceiptGiven(r) ==
    LET h == rawNotification[r].headers
    IN  \/ "push-receipt" \notin DOMAIN h
        \/ \A i \in DOMAIN h["push-receipt"] :
              h["push-receipt"][i] \in {" ", "\t", "\n", "\r"}

\* C20: for a request without a receipt token, or with an empty or all-blank
\* one, preflight_check never calls parse_push_receipt and leaves the
\* Notification as it came; once it has started it has called all_channels,
\* once, with the uaid of the request, and a registry answer without the channel
\* ends the request with 404 "No such subscription" while one with the channel
\* lets it through.
C20_NoReceiptStillValidated ==
    \A r \in Reqs :
        NoReceiptGiven(r) =>
            /\ ~Called(r, "parse_push_receipt")
            /\ notification[r] = rawNotification[r]
            /\ pc[r] \notin {"Idle", "Start"} =>
                  /\ Cardinality(Events(r, "call", "all_channels")) = 1
                  /\ \A i \in Events(r, "call", "all_channels") :
                        log[r][i].args = [uaid |-> uaid[r]]
            /\ pc[r] \notin {"Idle", "Start", "all_channels"} =>
                  \/ Events(r, "raise", "all_channels") # {}
                  \/ /\ Cardinality(Events(r, "return", "all_channels")) = 1
                     /\ \A s \in RegistryAnswers(r) :
                           IF rawNotification[r].channel_id \in s
                           THEN ~IsError(outcome[r], 404, "No such subscription")
                           ELSE IsError(outcome[r], 404, "No such subscription")

C20_Witness ==
    \E r \in Reqs :
        /\ "push-receipt" \in DOMAIN rawNotification[r].headers
        /\ rawNotification[r].headers["push-receipt"] = <<" ">>
        /\ \E s \in RegistryAnswers(r) : rawNotification[r].channel_id \notin s
        /\ pc[r] = "Error"

====
